---- MODULE Spec2Model ----
(***************************************************************************)
(* Model of dotfiles-manager: the three package-manager adapters           *)
(* (Homebrew, Pacman, Winget) and the EvalStr templated scalar.            *)
(*                                                                         *)
(* An adapter call is a sequence of blocking subprocess calls.  Every      *)
(* subprocess result (exit code, whether the id appears in stdout) is an   *)
(* input chosen by the environment; the calls made are recorded in `log`.  *)
(***************************************************************************)
EXTENDS Integers, Sequences, FiniteSets, TLC

\* ---------------------------------------------------------------- bounds
MaxLen == 2

\* ---------------------------------------------------------------- domains
Pkgs == {"bash", "fake"}

Managers == {"brew", "pacman", "winget"}

\* one element of an install input: a plain string or a PackageSpec(id)
Items == [kind : {"str", "spec"}, id : Pkgs]

RECURSIVE SeqsUpTo(_, _)
SeqsUpTo(S, n) ==
    IF n = 0 THEN {<<>>}
    ELSE LET shorter == SeqsUpTo(S, n - 1)
         IN  shorter \cup {Append(q, x) : q \in {r \in shorter : Len(r) = n - 1}, x \in S}

\* the argument of install: str, PackageSpec, list of those, or anything else
InstallInputs ==
    {[shape |-> "str", items |-> <<it>>] : it \in {x \in Items : x.kind = "str"}}
    \cup {[shape |-> "spec", items |-> <<it>>] : it \in {x \in Items : x.kind = "spec"}}
    \cup {[shape |-> "list", items |-> q] : q \in SeqsUpTo(Items, MaxLen)}
    \cup {[shape |-> "other", items |-> <<>>]}

NoInput == [shape |-> "none", items |-> <<>>]

NoOutcome == [kind |-> "pending", specs |-> <<>>, manager |-> "-"]

\* ---------------------------------------------------------------- versions: domains
MaxOut == 3

\* a version string, as its dot-separated numeric components; <<>> is a
\* string without any numeric component
VerStrs == {<<1, 0, 0>>, <<1, 2>>, <<>>}

\* one entry of the "formulae" array of `brew info --json=v2`
BrewFormulae ==
    {[has |-> FALSE, stable |-> <<>>]} \cup {[has |-> TRUE, stable |-> v] : v \in VerStrs}

\* one stdout line of `pacman -Si`
PacmanLines ==
    {[head |-> "Other", colon |-> TRUE, text |-> <<>>],
     [head |-> "Version", colon |-> FALSE, text |-> <<>>]}
    \cup {[head |-> "Version", colon |-> TRUE, text |-> v] : v \in VerStrs}

\* one stdout line of `winget show --versions`, stripped
WingetLines ==
    {[head |-> "Version", text |-> <<>>], [head |-> "-------", text |-> <<>>]}
    \cup {[head |-> "", text |-> v] : v \in VerStrs}

OutLines(m) ==
    IF m = "brew" THEN BrewFormulae
    ELSE IF m = "pacman" THEN PacmanLines ELSE WingetLines

\* the phrases the adapters look for in stderr + stdout of a failed query
BrewNoFormula(p) == [phrase |-> "Error: No available formula with the name", pkg |-> p]
PacmanErrorPackage == [phrase |-> "error: package '", pkg |-> "-"]
PacmanWasNotFound == [phrase |-> "was not found", pkg |-> "-"]
WingetNoPackage == [phrase |-> "No package found matching input criteria", pkg |-> "-"]
WingetNoInstalled == [phrase |-> "No installed package found", pkg |-> "-"]

Phrases(m) ==
    IF m = "brew" THEN {BrewNoFormula(p) : p \in Pkgs}
    ELSE IF m = "pacman" THEN {PacmanErrorPackage, PacmanWasNotFound}
    ELSE {WingetNoPackage, WingetNoInstalled}

\* what the query subprocess can do: exit zero with some stdout, or exit
\* non-zero with some of the phrases in its combined output
ProcResults(m) ==
    {[rc |-> 0, out |-> q, phrases |-> {}] : q \in SeqsUpTo(OutLines(m), MaxOut)}
    \cup {[rc |-> 1, out |-> <<>>, phrases |-> P] : P \in SUBSET Phrases(m)}

NoProc == [rc |-> 0, out |-> <<>>, phrases |-> {}]

NoResult == [kind |-> "pending", versions |-> <<>>, package |-> "-", manager |-> "-"]

\* self.command
NotARealManager == "notarealmanager123"

Command(m, avail) == IF avail THEN m ELSE NotARealManager

\* ---------------------------------------------------------------- EvalStr: domains
MaxMods == 1
MaxRenders == 2

\* the EvalStr instances of the loaded document
Insts == {"E1", "E2"}

\* the environments that can be registered: env1 is the one whose globals
\* the run updates, env2 another one, built with x = "v2" and left alone
Envs == {"env1", "env2"}
MutableEnvs == {"env1"}

\* the default of EvalStr.jinja is the Environment class itself
EnvironmentClass == "Environment"

\* the value of the one global the templates refer to; "undefined" when unset
Undefined == "undefined"
GlobalValues == {"v1", "v2", Undefined}

\* template text, as its pieces
VarRef == "{{ x }}"
Literal == "lit"
ModifiedSuffix == " modified_value"

\* the document: properties: {config: !eval E1, name: plain}, target: !eval E2
Keys == {"properties", "config", "name", "target"}
Maps == {"root", "props"}
\* the dot-separated paths given to modify, split at the dots
Paths ==
    {<<"target">>, <<"properties">>, <<"name">>,
     <<"properties", "config">>, <<"properties", "name">>, <<"properties", "target">>,
     <<"target", "config">>, <<"config", "target">>,
     <<"properties", "config", "name">>, <<"properties", "target", "properties">>}

\* no modify call is running
NoPath == <<>>

Unset == [set |-> FALSE, value |-> <<>>]
Value(v) == [set |-> TRUE, value |-> v]

VARIABLES
    mgr,                \* which adapter class the instance is
    available,          \* whether self.command resolves to an executable
    pc,                 \* position of the running install call
    spec,               \* the argument of the running install call
    pkgids,             \* local: ids, parallel to specs
    specs,              \* local: normalised specs
    i,                  \* local: index of the pre-check loop
    j,                  \* local: index of the install / post-check loop
    already_installed,  \* local
    to_install,         \* local: (s, pkgid) pairs, with the input position
    failed,             \* local
    successful,         \* local
    proc,               \* local: exit code of the last install command
    log,                \* subprocess calls made by the running call, in order
    outcome,            \* what the call returned or raised
    vpackage,           \* versions: the package asked for
    vproc,              \* versions: what the subprocess did
    vresult,            \* versions: what the call returned or raised
    jinja,              \* EvalStr.jinja: the registered rendering environment
    globals,            \* environment.globals of each environment
    template,           \* _node.value of each EvalStr instance
    cached,             \* _cached_str of each EvalStr instance
    represented,        \* the last scalar handed to the representer by to_yaml
    renders,            \* history: completed template.render() calls per instance
    firstRead,          \* history: what the first str() of each instance returned
    lastRead,           \* history: what the latest str() of each instance returned
    staleRead,          \* history: a str() returned while a fresh evaluation differed
    mpath               \* the path argument of the modify call being run, if any

installVars == <<pc, spec, pkgids, specs, i, j, already_installed, to_install,
                 failed, successful, proc, log, outcome>>

versionsVars == <<vpackage, vproc, vresult>>

evalVars == <<jinja, globals, template, cached, represented, renders,
              firstRead, lastRead, staleRead, mpath>>

otherVars == <<versionsVars, evalVars>>

vars == <<mgr, available, installVars, versionsVars, evalVars>>

\* ---------------------------------------------------------------- helpers
\* PackageSpec(s) for a string s, a PackageSpec unchanged
AsPackageSpec(it) == [kind |-> "spec", id |-> it.id]

\* the (pkgids, specs) normalisation at the head of install
NormIds(sp) == [k \in 1..Len(sp.items) |-> sp.items[k].id]

NormSpecs(sp) ==
    IF sp.shape = "list"
    THEN [k \in 1..Len(sp.items) |-> AsPackageSpec(sp.items[k])]
    ELSE sp.items

\* the presence test applied to the result of a `list` / `-Q` subprocess
Present(m, rc, hit) ==
    IF m = "winget" THEN rc = 0 /\ hit ELSE rc = 0

\* the argument list of the install command issued at loop index k
InstallArgsAllIds(m, ti, k) ==
    IF m = "winget" THEN <<ti[k].pkgid>>
    ELSE pkgids

InstallArgs(m, ti, k) ==
    IF m = "winget" THEN <<ti[k].pkgid>>
    ELSE [n \in 1..Len(ti) |-> ti[n].pkgid]

CheckCall(pkgid, pos, rc, hit) ==
    [cmd |-> "check", ids |-> <<pkgid>>, rc |-> rc, hit |-> hit, pos |-> pos]

InstallCall(ids, rc) ==
    [cmd |-> "install", ids |-> ids, rc |-> rc, hit |-> FALSE, pos |-> 0]

\* ---------------------------------------------------------------- install
InstallIdle ==
    /\ pc = "idle"
    /\ spec = NoInput
    /\ pkgids = <<>>
    /\ specs = <<>>
    /\ i = 1
    /\ j = 1
    /\ already_installed = <<>>
    /\ to_install = <<>>
    /\ failed = <<>>
    /\ successful = <<>>
    /\ proc = 0
    /\ log = <<>>
    /\ outcome = NoOutcome

VersionsIdle ==
    /\ vpackage = "-"
    /\ vproc = NoProc
    /\ vresult = NoResult

\* the document right after yaml.load, before any environment is registered
EvalLoaded ==
    /\ jinja = EnvironmentClass
    /\ globals = [e \in Envs |-> IF e \in MutableEnvs THEN Undefined ELSE "v2"]
    /\ template = [e \in Insts |-> IF e = "E1" THEN <<VarRef>> ELSE <<Literal>>]
    /\ cached = [e \in Insts |-> Unset]
    /\ represented = <<>>
    /\ renders = [e \in Insts |-> 0]
    /\ firstRead = [e \in Insts |-> Unset]
    /\ lastRead = [e \in Insts |-> Unset]
    /\ staleRead = [e \in Insts |-> FALSE]
    /\ mpath = NoPath

\* an adapter instance right after construction
Init ==
    /\ mgr \in Managers
    /\ available \in BOOLEAN
    /\ InstallIdle
    /\ VersionsIdle
    /\ EvalLoaded

\* install(spec): type dispatch and normalisation
InstallEnter ==
    /\ pc = "idle"
    /\ \E sp \in InstallInputs :
        /\ spec' = sp
        /\ IF sp.shape = "other"
           THEN /\ outcome' = [kind |-> "ValueError", specs |-> <<>>, manager |-> "-"]
                /\ pc' = "done"
                /\ UNCHANGED <<pkgids, specs>>
           ELSE /\ pkgids' = NormIds(sp)
                /\ specs' = NormSpecs(sp)
                /\ pc' = IF Len(sp.items) = 0 THEN "finish" ELSE "precheck"
                /\ UNCHANGED outcome
    /\ UNCHANGED otherVars
    /\ UNCHANGED <<mgr, available, i, j, already_installed, to_install,
                   failed, successful, proc, log>>

\* one iteration of the "already installed" loop
PreCheck ==
    /\ pc = "precheck"
    /\ i <= Len(pkgids)
    /\ IF ~available
       THEN /\ outcome' = [kind |-> "FileNotFoundError", specs |-> <<>>, manager |-> "-"]
            /\ pc' = "done"
            /\ UNCHANGED <<i, already_installed, to_install, successful, log>>
       ELSE \E rc \in {0, 1}, hit \in BOOLEAN :
            /\ log' = Append(log, CheckCall(pkgids[i], i, rc, hit))
            /\ IF Present(mgr, rc, hit)
               THEN /\ already_installed' = Append(already_installed, specs[i])
                    /\ UNCHANGED to_install
               ELSE /\ to_install' = Append(to_install,
                                            [s |-> specs[i], pkgid |-> pkgids[i], pos |-> i])
                    /\ UNCHANGED already_installed
            /\ i' = i + 1
            /\ pc' = IF i < Len(pkgids) THEN "precheck"
                     ELSE IF to_install' # <<>> THEN "install" ELSE "finish"
            /\ successful' = IF i < Len(pkgids) THEN successful ELSE already_installed'
            /\ UNCHANGED outcome
    /\ UNCHANGED otherVars
    /\ UNCHANGED <<mgr, available, spec, pkgids, specs, j, failed, proc>>

\* the install command: one batch (brew, pacman) or one id (winget)
RunInstall ==
    /\ pc = "install"
    /\ j <= Len(to_install)
    /\ \E rc \in {0, 1} :
        /\ log' = Append(log, InstallCall(InstallArgs(mgr, to_install, j), rc))
        /\ proc' = rc
    /\ pc' = "postcheck"
    /\ UNCHANGED otherVars
    /\ UNCHANGED <<mgr, available, spec, pkgids, specs, i, j, already_installed,
                   to_install, failed, successful, outcome>>

\* the presence check after the install attempt
PostCheckIgnoresCheck ==
    /\ pc = "postcheck"
    /\ j <= Len(to_install)
    /\ \E rc \in {0, 1}, hit \in BOOLEAN :
        /\ log' = Append(log, CheckCall(to_install[j].pkgid, to_install[j].pos, rc, hit))
        /\ IF proc = 0
           THEN /\ successful' = Append(successful, to_install[j].s)
                /\ UNCHANGED failed
           ELSE /\ failed' = Append(failed, to_install[j].s)
                /\ UNCHANGED successful
    /\ j' = j + 1
    /\ pc' = IF j = Len(to_install) THEN "finish"
             ELSE IF mgr = "winget" THEN "install" ELSE "postcheck"
    /\ UNCHANGED otherVars
    /\ UNCHANGED <<mgr, available, spec, pkgids, specs, i, already_installed,
                   to_install, proc, outcome>>

PostCheck ==
    /\ pc = "postcheck"
    /\ j <= Len(to_install)
    /\ \E rc \in {0, 1}, hit \in BOOLEAN :
        /\ log' = Append(log, CheckCall(to_install[j].pkgid, to_install[j].pos, rc, hit))
        /\ IF Present(mgr, rc, hit)
           THEN /\ successful' = Append(successful, to_install[j].s)
                /\ UNCHANGED failed
           ELSE /\ failed' = Append(failed, to_install[j].s)
                /\ UNCHANGED successful
    /\ j' = j + 1
    /\ pc' = IF j = Len(to_install) THEN "finish"
             ELSE IF mgr = "winget" THEN "install" ELSE "postcheck"
    /\ UNCHANGED otherVars
    /\ UNCHANGED <<mgr, available, spec, pkgids, specs, i, already_installed,
                   to_install, proc, outcome>>

\* what install raises or returns once the loops are over
RaiseOrReturnByCount(sp, fl, m) ==
    IF fl # <<>>
    THEN IF Len(fl) > 1
         THEN [kind |-> "PackageInstallBunchError", specs |-> fl, manager |-> m]
         ELSE [kind |-> "PackageInstallError", specs |-> <<fl[1]>>, manager |-> m]
    ELSE [kind |-> "None", specs |-> <<>>, manager |-> "-"]

RaiseOrReturnAllAttempted(sp, fl, m) ==
    IF fl # <<>>
    THEN IF sp.shape = "list"
         THEN [kind |-> "PackageInstallBunchError",
               specs |-> [n \in 1..Len(to_install) |-> to_install[n].s], manager |-> m]
         ELSE [kind |-> "PackageInstallError", specs |-> <<fl[1]>>, manager |-> m]
    ELSE [kind |-> "None", specs |-> <<>>, manager |-> "-"]

RaiseOrReturn(sp, fl, m) ==
    IF fl # <<>>
    THEN IF sp.shape = "list"
         THEN [kind |-> "PackageInstallBunchError", specs |-> fl, manager |-> m]
         ELSE [kind |-> "PackageInstallError", specs |-> <<fl[1]>>, manager |-> m]
    ELSE [kind |-> "None", specs |-> <<>>, manager |-> "-"]

InstallFinish ==
    /\ pc = "finish"
    /\ outcome' = RaiseOrReturn(spec, failed, mgr)
    /\ pc' = "done"
    /\ UNCHANGED otherVars
    /\ UNCHANGED <<mgr, available, spec, pkgids, specs, i, j, already_installed,
                   to_install, failed, successful, proc, log>>

\* the call is over; the instance is ready for the next one
InstallReturn ==
    /\ pc = "done"
    /\ pc' = "idle"
    /\ spec' = NoInput
    /\ pkgids' = <<>>
    /\ specs' = <<>>
    /\ i' = 1
    /\ j' = 1
    /\ already_installed' = <<>>
    /\ to_install' = <<>>
    /\ failed' = <<>>
    /\ successful' = <<>>
    /\ proc' = 0
    /\ log' = <<>>
    /\ outcome' = NoOutcome
    /\ UNCHANGED otherVars
    /\ UNCHANGED <<mgr, available>>

Next ==
    \/ InstallEnter
    \/ PreCheck
    \/ RunInstall
    \/ PostCheck
    \/ InstallFinish
    \/ InstallReturn

Spec == Init /\ [][Next]_vars

\* ---------------------------------------------------------------- versions
\* semantic_version.Version(s): strict, three components
StrictOk(v) == Len(v) = 3

\* semantic_version.Version.coerce(s): missing components become 0
CoerceOk(v) == Len(v) >= 1

Coerce(v) == [k \in 1..3 |-> IF k <= Len(v) THEN v[k] ELSE 0]

Returned(vs) == [kind |-> "list", versions |-> vs, package |-> "-", manager |-> "-"]

Raised(kind, p, m) == [kind |-> kind, versions |-> <<>>, package |-> p, manager |-> m]

\* HomebrewManager.versions: the loop over info["formulae"]
RECURSIVE BrewParse(_, _, _)
BrewParse(out, k, acc) ==
    IF k > Len(out) THEN Returned(acc)
    ELSE IF out[k].has /\ out[k].stable # <<>> /\ StrictOk(out[k].stable)
         THEN BrewParse(out, k + 1, Append(acc, out[k].stable))
         ELSE BrewParse(out, k + 1, acc)

HomebrewVersionsResult(p, avail, pr) ==
    IF ~avail THEN Raised("PackageManagerNotFound", "-", Command("brew", avail))
    ELSE IF pr.rc = 0 THEN BrewParse(pr.out, 1, <<>>)
    ELSE IF BrewNoFormula(p) \in pr.phrases THEN Returned(<<>>)
    ELSE Raised("CalledProcessError", "-", "-")

\* PackageManagerHelper.run_versions: the loop over stdout lines
RECURSIVE PacmanParse(_, _, _)
PacmanParse(out, k, acc) ==
    IF k > Len(out) THEN Returned(acc)
    ELSE IF out[k].head = "Version"
         THEN IF ~out[k].colon THEN Raised("IndexError", "-", "-")
              ELSE IF StrictOk(out[k].text)
                   THEN PacmanParse(out, k + 1, Append(acc, out[k].text))
                   ELSE PacmanParse(out, k + 1, acc)
         ELSE PacmanParse(out, k + 1, acc)

run_versions_swallows_missing(p, avail, pr) ==
    IF ~avail THEN Returned(<<>>)
    ELSE IF pr.rc = 0 THEN PacmanParse(pr.out, 1, <<>>)
    ELSE IF PacmanErrorPackage \in pr.phrases /\ PacmanWasNotFound \in pr.phrases
         THEN Returned(<<>>)
    ELSE Raised("CalledProcessError", "-", "-")

run_versions(p, avail, pr) ==
    IF ~avail THEN Raised("PackageManagerNotFound", "-", Command("pacman", avail))
    ELSE IF pr.rc = 0 THEN PacmanParse(pr.out, 1, <<>>)
    ELSE IF PacmanErrorPackage \in pr.phrases /\ PacmanWasNotFound \in pr.phrases
         THEN Returned(<<>>)
    ELSE Raised("CalledProcessError", "-", "-")

\* PacmanManager.versions: an empty list becomes PackageNotFound
PacmanVersionsResultKeepsEmpty(p, avail, pr) == run_versions(p, avail, pr)

PacmanVersionsResult(p, avail, pr) ==
    LET r == run_versions(p, avail, pr)
    IN  IF r.kind = "list" /\ r.versions = <<>>
        THEN Raised("PackageNotFound", p, "pacman")
        ELSE r

\* WingetManager.versions: the loop over stdout lines
RECURSIVE WingetParse(_, _, _, _)
WingetParse(out, k, capture, acc) ==
    IF k > Len(out) THEN Returned(acc)
    ELSE IF out[k].head = "Version" \/ out[k].head = "-------"
         THEN WingetParse(out, k + 1, capture + 1, acc)
         ELSE IF capture = 2
              THEN IF CoerceOk(out[k].text)
                   THEN WingetParse(out, k + 1, capture, Append(acc, Coerce(out[k].text)))
                   ELSE Raised("ValueError", "-", "-")
              ELSE WingetParse(out, k + 1, capture, acc)

WingetVersionsResult(p, avail, pr) ==
    IF ~avail THEN Raised("PackageManagerNotFound", "-", Command("winget", avail))
    ELSE IF pr.rc = 0 THEN WingetParse(pr.out, 1, 0, <<>>)
    ELSE IF WingetNoPackage \in pr.phrases \/ WingetNoInstalled \in pr.phrases
         THEN Raised("PackageNotFound", p, Command("winget", avail))
    ELSE Raised("CalledProcessError", "-", "-")

\* the subprocess of a versions call: none when the executable is missing
QueryResults(m, avail) == IF avail THEN ProcResults(m) ELSE {NoProc}

HomebrewVersions ==
    /\ mgr = "brew"
    /\ \E p \in Pkgs, pr \in QueryResults("brew", available) :
        /\ vpackage' = p
        /\ vproc' = pr
        /\ vresult' = HomebrewVersionsResult(p, available, pr)
    /\ UNCHANGED <<mgr, available, installVars, evalVars>>

PacmanVersions ==
    /\ mgr = "pacman"
    /\ \E p \in Pkgs, pr \in QueryResults("pacman", available) :
        /\ vpackage' = p
        /\ vproc' = pr
        /\ vresult' = PacmanVersionsResult(p, available, pr)
    /\ UNCHANGED <<mgr, available, installVars, evalVars>>

WingetVersions ==
    /\ mgr = "winget"
    /\ \E p \in Pkgs, pr \in QueryResults("winget", available) :
        /\ vpackage' = p
        /\ vproc' = pr
        /\ vresult' = WingetVersionsResult(p, available, pr)
    /\ UNCHANGED <<mgr, available, installVars, evalVars>>

VersionsNext ==
    \/ HomebrewVersions
    \/ PacmanVersions
    \/ WingetVersions

VersionsSpec == Init /\ [][VersionsNext]_vars

\* ---------------------------------------------------------------- EvalStr
\* Template.render() under the globals g
Render(t, g) == [k \in DOMAIN t |-> IF t[k] = VarRef THEN g ELSE t[k]]

\* EvalStr.try_evaluate(value)
try_evaluate(t) ==
    IF jinja = "None" THEN [ok |-> TRUE, rendered |-> FALSE, value |-> t]
    ELSE IF jinja = EnvironmentClass
         THEN [ok |-> FALSE, rendered |-> FALSE, value |-> <<"TypeError">>]
    ELSE IF globals[jinja] = Undefined /\ \E k \in DOMAIN t : t[k] = VarRef
         THEN [ok |-> FALSE, rendered |-> FALSE, value |-> <<"UndefinedError">>]
    ELSE [ok |-> TRUE, rendered |-> TRUE, value |-> Render(t, globals[jinja])]

\* EvalStr.__str__
Str(e) ==
    /\ mpath = NoPath
    /\ IF ~cached[e].set
       THEN LET r == try_evaluate(template[e])
            IN  IF r.ok
                THEN /\ cached' = [cached EXCEPT ![e] = Value(r.value)]
                     /\ renders' = [renders EXCEPT ![e] = @ + (IF r.rendered THEN 1 ELSE 0)]
                     /\ firstRead' = IF firstRead[e].set THEN firstRead
                                     ELSE [firstRead EXCEPT ![e] = Value(r.value)]
                     /\ lastRead' = [lastRead EXCEPT ![e] = Value(r.value)]
                     /\ UNCHANGED staleRead
                ELSE UNCHANGED <<cached, renders, firstRead, lastRead, staleRead>>
       ELSE /\ lastRead' = [lastRead EXCEPT ![e] = cached[e]]
            /\ staleRead' = [staleRead EXCEPT ![e] =
                                @ \/ try_evaluate(template[e]) #
                                       [ok |-> TRUE, rendered |-> TRUE, value |-> cached[e].value]]
            /\ UNCHANGED <<cached, renders, firstRead>>
    /\ UNCHANGED <<jinja, globals, template, represented, mpath>>
    /\ UNCHANGED <<mgr, available, installVars, versionsVars>>

\* EvalStr.to_yaml, called by the dump for an instance
to_yaml(e) ==
    /\ mpath = NoPath
    /\ renders[e] < MaxRenders
    /\ LET r == try_evaluate(template[e])
       IN  IF r.ok
           THEN /\ represented' = r.value
                /\ renders' = [renders EXCEPT ![e] = @ + (IF r.rendered THEN 1 ELSE 0)]
           ELSE UNCHANGED <<represented, renders>>
    /\ UNCHANGED <<jinja, globals, template, cached, firstRead, lastRead, staleRead, mpath>>
    /\ UNCHANGED <<mgr, available, installVars, versionsVars>>

\* EvalStr.register_environment
register_environment ==
    /\ mpath = NoPath
    /\ \E env \in Envs \cup {"None"} : jinja' = env
    /\ UNCHANGED <<globals, template, cached, represented, renders,
                   firstRead, lastRead, staleRead, mpath>>
    /\ UNCHANGED <<mgr, available, installVars, versionsVars>>

\* environment.globals.update(...) on one of the environments
UpdateGlobals ==
    /\ mpath = NoPath
    /\ \E env \in MutableEnvs, g \in GlobalValues : globals' = [globals EXCEPT ![env] = g]
    /\ UNCHANGED <<jinja, template, cached, represented, renders,
                   firstRead, lastRead, staleRead, mpath>>
    /\ UNCHANGED <<mgr, available, installVars, versionsVars>>

\* value.get(item) / node.get(item) on the document's mappings
Get(node, key) ==
    IF node = "root"
    THEN IF key = "properties" THEN "props" ELSE IF key = "target" THEN "E2" ELSE "None"
    ELSE IF key = "config" THEN "E1" ELSE IF key = "name" THEN "plain" ELSE "None"

\* the lookup loop of modify: a None node restarts at the document root
RECURSIVE Resolve(_, _, _)
Resolve(path, k, node) ==
    IF k > Len(path) THEN node
    ELSE IF node = "None" THEN Resolve(path, k + 1, Get("root", path[k]))
    ELSE IF node \in Maps THEN Resolve(path, k + 1, Get(node, path[k]))
    ELSE "AttributeError"

\* the number of suffixes modify has appended to a template so far
Mods(t) == Len(SelectSeq(t, LAMBDA x : x = ModifiedSuffix))

\* modify(path, value) is called: path.split('.') is bound
ModifyCall ==
    /\ mpath = NoPath
    /\ \E path \in Paths :
        /\ LET node == Resolve(path, 1, "None")
           IN  node \in Insts => Mods(template[node]) < MaxMods
        /\ mpath' = path
    /\ UNCHANGED <<jinja, globals, template, cached, represented, renders,
                   firstRead, lastRead, staleRead>>
    /\ UNCHANGED <<mgr, available, installVars, versionsVars>>

ModifyClearsCache(path) ==
    /\ mpath = path
    /\ LET node == Resolve(path, 1, "None")
       IN  IF node \in Insts
           THEN /\ template' = [template EXCEPT ![node] = Append(@, ModifiedSuffix)]
                /\ cached' = [cached EXCEPT ![node] = Unset]
           ELSE UNCHANGED <<template, cached>>
    /\ mpath' = NoPath
    /\ UNCHANGED <<jinja, globals, represented, renders, firstRead, lastRead, staleRead>>
    /\ UNCHANGED <<mgr, available, installVars, versionsVars>>

\* the body of modify, for the path of the running call
modify(path) ==
    /\ mpath = path
    /\ LET node == Resolve(path, 1, "None")
       IN  IF node \in Insts
           THEN template' = [template EXCEPT ![node] = Append(@, ModifiedSuffix)]
           ELSE UNCHANGED template
    /\ mpath' = NoPath
    /\ UNCHANGED <<jinja, globals, cached, represented, renders,
                   firstRead, lastRead, staleRead>>
    /\ UNCHANGED <<mgr, available, installVars, versionsVars>>

EvalInit ==
    /\ mgr = "brew"
    /\ available = TRUE
    /\ InstallIdle
    /\ VersionsIdle
    /\ EvalLoaded

EvalNext ==
    \/ \E e \in Insts : Str(e)
    \/ \E e \in Insts : to_yaml(e)
    \/ register_environment
    \/ UpdateGlobals
    \/ ModifyCall
    \/ \E path \in Paths : modify(path)

EvalSpec == EvalInit /\ [][EvalNext]_vars

\* ================================================================ claims
\* the subsequence of s at the positions in P, in order
RECURSIVE Pick(_, _, _)
Pick(s, P, k) ==
    IF k > Len(s) THEN <<>>
    ELSE (IF k \in P THEN <<s[k]>> ELSE <<>>) \o Pick(s, P, k + 1)

Range(s) == {s[k] : k \in DOMAIN s}

\* a presence check succeeded: zero exit, and for winget the id is in stdout
CheckOk(e) == e.rc = 0 /\ (mgr = "winget" => e.hit)

IsPreCheck(n) ==
    /\ log[n].cmd = "check"
    /\ \A m \in 1..(n - 1) : log[m].cmd = "check"

IsPostCheck(n) ==
    /\ log[n].cmd = "check"
    /\ \E m \in 1..(n - 1) : log[m].cmd = "install" /\ log[n].ids[1] \in Range(log[m].ids)

PreOkPositions == {log[n].pos : n \in {x \in DOMAIN log : IsPreCheck(x) /\ CheckOk(log[x])}}
PreFailPositions == {log[n].pos : n \in {x \in DOMAIN log : IsPreCheck(x) /\ ~CheckOk(log[x])}}
PostOkPositions == {log[n].pos : n \in {x \in DOMAIN log : IsPostCheck(x) /\ CheckOk(log[x])}}
PostFailPositions == {log[n].pos : n \in {x \in DOMAIN log : IsPostCheck(x) /\ ~CheckOk(log[x])}}

\* the call ran its subprocesses and ended by returning or by an install error
Completed ==
    /\ pc = "done"
    /\ outcome.kind \in {"None", "PackageInstallError", "PackageInstallBunchError"}

\* the result fixed by the input and the set of failed input positions alone
ResultOf(sp, P) ==
    IF P = {} THEN [kind |-> "None", specs |-> <<>>, manager |-> "-"]
    ELSE IF sp.shape = "list"
         THEN [kind |-> "PackageInstallBunchError",
               specs |-> Pick([k \in 1..Len(sp.items) |-> AsPackageSpec(sp.items[k])], P, 1),
               manager |-> mgr]
         ELSE [kind |-> "PackageInstallError", specs |-> sp.items, manager |-> mgr]

\* C1: at every point of an install call the failed list holds exactly the
\* requested items whose presence check after the install attempt failed, and
\* the completed call's result is the one fixed by the input and those check
\* results alone, whatever the install command's exit code was.
C1_FailedIffPostCheckFails ==
    /\ failed = Pick(specs, PostFailPositions, 1)
    /\ pc \in {"install", "postcheck", "finish", "done"} =>
          successful = already_installed \o Pick(specs, PostOkPositions, 1)
    /\ Completed => outcome = ResultOf(spec, PostFailPositions)

\* a call that returned normally although its install command exited non-zero
C1_Witness ==
    /\ Completed
    /\ outcome.kind = "None"
    /\ \E n \in DOMAIN log : log[n].cmd = "install" /\ log[n].rc # 0

\* C2: the InstallBunchFailed of a list install carries exactly the items
\* absent at the pre-check and still absent at the post-attempt check, and no
\* item whose presence check succeeded, before or after the attempt.
C2_BunchCarriesExactlyFailed ==
    (pc = "done" /\ outcome.kind = "PackageInstallBunchError") =>
        /\ outcome.specs =
             Pick([k \in 1..Len(spec.items) |-> AsPackageSpec(spec.items[k])],
                  PreFailPositions \cap PostFailPositions, 1)
        /\ PreFailPositions \cap PostFailPositions # {}
        /\ \A k \in PreOkPositions \cup PostOkPositions :
              (\A o \in DOMAIN spec.items : o # k => spec.items[o].id # spec.items[k].id)
                  => AsPackageSpec(spec.items[k]) \notin Range(outcome.specs)

\* a two-item list where one item was present and the other stayed absent
C2_Witness ==
    /\ pc = "done"
    /\ outcome.kind = "PackageInstallBunchError"
    /\ Len(spec.items) = 2
    /\ PreOkPositions = {1}
    /\ PostFailPositions = {2}
    /\ outcome.specs = <<AsPackageSpec(spec.items[2])>>

\* C3: with a usable executable, the result kind follows from the input shape
\* and from whether any item failed: InstallFailed carrying the input for a
\* failed single item, one InstallBunchFailed for a list with a failed item,
\* a plain return when nothing failed.
C3_ResultKindByShape ==
    (pc = "done" /\ available /\ spec.shape \in {"str", "spec", "list"}) =>
        /\ (failed # <<>> /\ spec.shape \in {"str", "spec"}) =>
              /\ outcome.kind = "PackageInstallError"
              /\ outcome.specs = spec.items
        /\ (failed # <<>> /\ spec.shape = "list") =>
              outcome.kind = "PackageInstallBunchError"
        /\ failed = <<>> => outcome.kind = "None"

\* a one-element list whose only item failed
C3_Witness ==
    /\ pc = "done"
    /\ spec.shape = "list"
    /\ Len(spec.items) = 1
    /\ Len(failed) = 1
    /\ outcome.kind = "PackageInstallBunchError"

\* C4: install on an adapter whose executable cannot be located fails with
\* PackageManagerNotFound, for single-item and list inputs.
C4_InstallManagerUnavailable ==
    (pc = "done" /\ ~available /\ spec.shape \in {"str", "spec", "list"}) =>
        outcome.kind = "PackageManagerNotFound"

\* the subprocess calls of the log, without their results
Calls == [n \in DOMAIN log |-> [cmd |-> log[n].cmd, ids |-> log[n].ids]]

AbsentIds == Pick(pkgids, PreFailPositions, 1)

\* the protocol of one call, given the ids found absent by the pre-checks
Protocol(m, ids, absent) ==
    [k \in 1..Len(ids) |-> [cmd |-> "check", ids |-> <<ids[k]>>]]
    \o (IF m = "winget"
        THEN [k \in 1..(2 * Len(absent)) |->
                IF k % 2 = 1 THEN [cmd |-> "install", ids |-> <<absent[(k + 1) \div 2]>>]
                ELSE [cmd |-> "check", ids |-> <<absent[k \div 2]>>]]
        ELSE IF absent = <<>> THEN <<>>
        ELSE <<[cmd |-> "install", ids |-> absent]>>
             \o [k \in 1..Len(absent) |-> [cmd |-> "check", ids |-> <<absent[k]>>]])

\* C10: the subprocess calls of a completed install are: one presence check
\* per requested id in input order; then for Homebrew and Pacman one install
\* command with all absent ids in input order (none if all are present) and
\* one post-check per absent id; for Winget, per absent id, one install
\* command followed at once by that id's post-check.
C10_SubprocessProtocol ==
    Completed =>
        /\ \A k \in 1..Len(pkgids) : log[k].pos = k /\ IsPreCheck(k)
        /\ Calls = Protocol(mgr, pkgids, AbsentIds)

\* a Winget call that had to install two ids
C10_Witness ==
    /\ Completed
    /\ mgr = "winget"
    /\ Len(AbsentIds) = 2
    /\ Len(log) = 6

\* a versions call has been made and is over
VersionsCalled == vresult.kind # "pending"

\* C5: with an executable that cannot be located, versions raises
\* PackageManagerNotFound on every adapter and for every package.
C5_VersionsManagerUnavailable ==
    (VersionsCalled /\ ~available) =>
        /\ vresult.kind = "PackageManagerNotFound"
        /\ vresult.manager = NotARealManager

\* a versions call on an adapter whose executable is missing
C5_Witness ==
    /\ VersionsCalled
    /\ ~available
    /\ vpackage = "bash"
    /\ vresult.kind = "PackageManagerNotFound"

\* C6: HomebrewManager.versions raises PackageNotFound when brew exits
\* non-zero with the "No available formula" message for the package.
C6_HomebrewVersionsNotFound ==
    (/\ VersionsCalled
     /\ mgr = "brew"
     /\ available
     /\ vproc.rc # 0
     /\ BrewNoFormula(vpackage) \in vproc.phrases) =>
        vresult.kind = "PackageNotFound"

\* the not-found signature of the adapter is in the combined output
NotFoundSignature ==
    IF mgr = "pacman"
    THEN PacmanErrorPackage \in vproc.phrases /\ PacmanWasNotFound \in vproc.phrases
    ELSE WingetNoPackage \in vproc.phrases \/ WingetNoInstalled \in vproc.phrases

\* C7: on Pacman and Winget, a non-zero exit with the adapter's not-found
\* signature makes versions raise PackageNotFound for the package asked for;
\* no list is returned.
C7_VersionsNotFoundRaises ==
    (/\ VersionsCalled
     /\ mgr \in {"pacman", "winget"}
     /\ available
     /\ vproc.rc # 0
     /\ NotFoundSignature) =>
        /\ vresult.kind = "PackageNotFound"
        /\ vresult.package = vpackage
        /\ vresult.kind # "list"

\* a Pacman query that failed with both phrases of its signature
C7_Witness ==
    /\ VersionsCalled
    /\ mgr = "pacman"
    /\ available
    /\ vproc.rc # 0
    /\ vproc.phrases = {PacmanErrorPackage, PacmanWasNotFound}
    /\ vresult.kind = "PackageNotFound"

\* C8: once an instance has been read as text, every later textual read of it
\* returns the value of the first read, whatever happened to the environment
\* and to the raw template text in between.
C8_ReadStaysFixed ==
    \A e \in Insts : firstRead[e].set => lastRead[e] = firstRead[e]

\* an instance read again after modify changed its template and while a
\* fresh evaluation would have given something else
C8_Witness ==
    \E e \in Insts :
        /\ firstRead[e].set
        /\ staleRead[e]
        /\ template[e][Len(template[e])] = ModifiedSuffix
        /\ lastRead[e] = firstRead[e]

\* C9: over any sequence of textual reads and serializations the template of
\* an instance is rendered at most once.
C9_RenderedAtMostOnce ==
    \A e \in Insts : renders[e] <= 1

\* the index of the `Version` line of the first two-line table header of a
\* winget output (a `Version` line directly followed by a dash line), 0 if none
HeaderAt(out) ==
    LET H == {h \in 1..(Len(out) - 1) :
                 out[h].head = "Version" /\ out[h + 1].head = "-------"}
    IN  IF H = {} THEN 0 ELSE CHOOSE h \in H : \A g \in H : h <= g

\* C11: on a zero exit, WingetManager.versions returns one Version per output
\* line after the two-line table header, in output order and whatever the
\* line holds, and none for the lines before the header.
C11_WingetOneVersionPerLine ==
    (/\ VersionsCalled
     /\ mgr = "winget"
     /\ available
     /\ vproc.rc = 0
     /\ HeaderAt(vproc.out) # 0) =>
        LET first == HeaderAt(vproc.out) + 2
        IN  /\ vresult.kind = "list"
            /\ Len(vresult.versions) = Len(vproc.out) - first + 1
            /\ \A k \in 1..Len(vresult.versions) :
                  (vproc.out[first + k - 1].head = "" /\ CoerceOk(vproc.out[first + k - 1].text))
                      => vresult.versions[k] = Coerce(vproc.out[first + k - 1].text)

\* C12: PacmanManager.versions raises PackageNotFound only after a non-zero
\* exit with the not-found signature; after a zero exit it returns a list,
\* also when no Version line is present or none parses.
C12_PacmanNotFoundOnlyOnSignature ==
    (VersionsCalled /\ mgr = "pacman" /\ available) =>
        /\ vresult.kind = "PackageNotFound" =>
              /\ vproc.rc # 0
              /\ PacmanErrorPackage \in vproc.phrases
              /\ PacmanWasNotFound \in vproc.phrases
        /\ vproc.rc = 0 => vresult.kind = "list"

\* the value reached by looking up every segment of the path in order,
\* starting at the document root; "None" when a segment is absent
RECURSIVE Lookup(_, _, _)
Lookup(path, k, node) ==
    IF k > Len(path) THEN node
    ELSE IF node \in Maps THEN Lookup(path, k + 1, Get(node, path[k]))
    ELSE "None"

\* C13: modify(path, document) changes only the EvalStr reached by looking up
\* every segment of the path in order from the document root, by appending
\* " modified_value" to its template; when a segment is absent or the value
\* reached is no EvalStr, no template of the document changes.
C13_ModifyOnlyResolved ==
    [][(mpath # NoPath /\ mpath' = NoPath) =>
          LET node == Lookup(mpath, 1, "root")
          IN  template' = IF node \in Insts
                          THEN [template EXCEPT ![node] = Append(@, ModifiedSuffix)]
                          ELSE template]_vars

====
